---- MODULE Spec2Model ----
(***************************************************************************)
(* Model of gplus_wallpaper_maker.py: one run of main() fetches an album   *)
(* feed, recreates the album directory, downloads every image, builds the  *)
(* slideshow XML and writes it together with the background-properties    *)
(* (registration) XML.  Runs follow each other on one file system.         *)
(*                                                                         *)
(* Strings are sequences of atoms.  The atom "/" is the path separator;    *)
(* every other atom stands for a non-empty piece of text without "/".      *)
(***************************************************************************)
EXTENDS Integers, Sequences, FiniteSets, TLC

VARIABLES
  pc,             \* position of the run inside main()
  args,           \* parsed command line: duration_minutes, randomize
  album_xml,      \* the feed document returned for album_url
  media_content_elements,  \* url attributes found by line 72
  album_name,
  album_id,
  album_dir,
  images,         \* list of local file paths, main() line 69
  index,          \* number of loop iterations of line 76 completed
  slideshow_xml,  \* ElementTree built by _create_slideshow_xml
  error,          \* what ended the run at pc: an exception or a kill
  previous,       \* history: how the run before this one ended
  files,          \* file system: path -> content
  dirs,           \* file system: existing directories
  attempts,       \* history: urlretrieve calls of this run, in order
  call            \* a single call of a helper function: input and result

vars == <<pc, args, album_xml, media_content_elements, album_name, album_id,
          album_dir, images, index, slideshow_xml, error, previous, files,
          dirs, attempts, call>>

-----------------------------------------------------------------------------
(* Bounds *)

MaxImages == 2

MaxListLen == 3

MaxUrlLen == 5

MaxDuration == 31

-----------------------------------------------------------------------------
(* Strings and paths *)

Sep == "/"

HasSep(s) == \E i \in 1..Len(s) : s[i] = Sep

LastSep(s) ==
  CHOOSE i \in 1..Len(s) : s[i] = Sep /\ \A j \in (i+1)..Len(s) : s[j] # Sep

FirstSep(s) ==
  CHOOSE i \in 1..Len(s) : s[i] = Sep /\ \A j \in 1..(i-1) : s[j] # Sep

\* the split taken at the first separator instead of the last
SplitAtFirstSep(s) ==
  <<SubSeq(s, 1, FirstSep(s) - 1), SubSeq(s, FirstSep(s) + 1, Len(s))>>

\* s.rsplit('/', 1) for a string that holds a separator
RSplit(s) ==
  <<SubSeq(s, 1, LastSep(s) - 1), SubSeq(s, LastSep(s) + 1, Len(s))>>

\* posixpath.join(a, b)
PathJoin(a, b) ==
  IF b # <<>> /\ Head(b) = Sep THEN b
  ELSE IF a = <<>> \/ a[Len(a)] = Sep THEN a \o b
  ELSE a \o <<Sep>> \o b

\* the directory a path names, without trailing separators
RECURSIVE DirKey(_)
DirKey(p) ==
  IF Len(p) > 1 /\ p[Len(p)] = Sep THEN DirKey(SubSeq(p, 1, Len(p) - 1)) ELSE p

IsUnder(p, d) ==
  /\ Len(p) > Len(d)
  /\ SubSeq(p, 1, Len(d)) = d
  /\ p[Len(d) + 1] = Sep

DigitChars == <<"0", "1", "2", "3", "4", "5", "6", "7", "8", "9">>

RECURSIVE Digits(_)
Digits(n) ==
  IF n < 10 THEN <<DigitChars[n + 1]>>
  ELSE Digits(n \div 10) \o <<DigitChars[(n % 10) + 1]>>

\* str(n) for an int
Str(n) == IF n < 0 THEN <<"-">> \o Digits(0 - n) ELSE Digits(n)

BACKGROUND_PROPERTIES_DIR ==
  <<"~", Sep, ".local", Sep, "share", Sep, "gnome-background-properties", Sep>>

BACKGROUNDS_DIR == <<"~", Sep, ".local", Sep, "share", Sep, "backgrounds", Sep>>

-----------------------------------------------------------------------------
(* File system *)

Dirname(path) == SubSeq(path, 1, LastSep(path) - 1)

Basename(path) == SubSeq(path, LastSep(path) + 1, Len(path))

\* a file can be opened for writing at path: the path names no directory
\* and its directory exists
CanWrite(ds, path) ==
  /\ HasSep(path)
  /\ Basename(path) # <<>>
  /\ DirKey(Dirname(path)) \in ds
  /\ DirKey(path) \notin ds

WriteFile(fs, path, content) ==
  [p \in (DOMAIN fs) \cup {path} |-> IF p = path THEN content ELSE fs[p]]

FilesIn(fs, d) == {p \in DOMAIN fs : IsUnder(p, DirKey(d))}

\* shutil.rmtree(d, ignore_errors=True): removed tells whether the removal
\* went through; a failed removal is ignored and leaves the tree in place.
RmTreeFiles(fs, d, removed) ==
  IF removed THEN [p \in (DOMAIN fs) \ FilesIn(fs, d) |-> fs[p]] ELSE fs

RmTreeDirs(ds, d, removed) ==
  IF removed THEN {x \in ds : x # DirKey(d) /\ ~IsUnder(x, DirKey(d))} ELSE ds

\* os.makedirs(d): OSError when the directory exists
MakeDirs(ds, d) ==
  IF DirKey(d) \in ds THEN [exc |-> "OSError", dirs |-> ds]
  ELSE [exc |-> "", dirs |-> ds \cup {DirKey(d)}]

-----------------------------------------------------------------------------
(* ElementTree *)

Element(tag, text, children) ==
  [tag |-> tag, text |-> text, children |-> children]

Leaf(tag, text) == Element(tag, text, <<>>)

transition_duration_seconds == 5

\* the static segment takes the whole period, nothing is reserved
StaticDurationNoReserve(duration_minutes) == duration_minutes * 60

StaticDurationSeconds(duration_minutes) ==
  (duration_minutes * 60) - transition_duration_seconds

\* _create_slideshow_xml_item_pair
CreateSlideshowXmlItemPair(image, next_image, duration_minutes) ==
  << Element("static", <<>>,
       << Leaf("duration", Str(StaticDurationSeconds(duration_minutes))),
          Leaf("file", image) >>),
     Element("transition", <<>>,
       << Leaf("duration", Str(transition_duration_seconds)),
          Leaf("from", image),
          Leaf("to", next_image) >>) >>

StartTime ==
  Element("starttime", <<>>,
    << Leaf("year", <<"2015">>), Leaf("month", <<"01">>), Leaf("day", <<"01">>),
       Leaf("hour", <<"00">>), Leaf("minute", <<"00">>),
       Leaf("second", <<"00">>) >>)

\* the last image does not go back to the first
NextImageNoWrap(imgs, i) == IF i < Len(imgs) THEN imgs[i + 1] ELSE imgs[i]

\* the image that follows position i (positions count from 1 here)
NextImage(imgs, i) == IF i < Len(imgs) THEN imgs[i + 1] ELSE imgs[1]

\* the children of <background> after the loop has handled positions 1..i
RECURSIVE SlideshowChildren(_, _, _)
SlideshowChildren(imgs, duration_minutes, i) ==
  IF i = 0 THEN <<StartTime>>
  ELSE SlideshowChildren(imgs, duration_minutes, i - 1)
         \o CreateSlideshowXmlItemPair(imgs[i], NextImage(imgs, i),
                                       duration_minutes)

\* _create_slideshow_xml
CreateSlideshowXml(imgs, duration_minutes) ==
  Element("background", <<>>,
          SlideshowChildren(imgs, duration_minutes, Len(imgs)))

\* the two arguments land in each other's element
BackgroundPropertiesXmlSwapped(name, slideshow_xml_filepath) ==
  Element("wallpapers", <<>>,
    << Element("wallpaper", <<>>,
         << Leaf("name", slideshow_xml_filepath),
            Leaf("filename", name),
            Leaf("options", <<"zoom">>),
            Leaf("pcolor", <<"#111111">>),
            Leaf("scolor", <<"#111111">>),
            Leaf("shade_type", <<"solid">>) >>) >>)

\* _create_background_properties_xml
CreateBackgroundPropertiesXml(name, slideshow_xml_filepath) ==
  Element("wallpapers", <<>>,
    << Element("wallpaper", <<>>,
         << Leaf("name", name),
            Leaf("filename", slideshow_xml_filepath),
            Leaf("options", <<"zoom">>),
            Leaf("pcolor", <<"#111111">>),
            Leaf("scolor", <<"#111111">>),
            Leaf("shade_type", <<"solid">>) >>) >>)

\* _print_download_progress: the exception it raises, "" for none
PrintDownloadProgress(total, so_far) ==
  IF total = 0 THEN "ZeroDivisionError" ELSE ""

-----------------------------------------------------------------------------
(* _save_image *)

DownloadUrl(image_url) ==
  RSplit(image_url)[1] \o <<Sep, "s4096-d", Sep>> \o RSplit(image_url)[2]

LocalFilepath(image_url, dir) == PathJoin(dir, RSplit(image_url)[2])

\* what urllib.urlretrieve meets at the download URL: the image ("ok"), an
\* HTTP error status, whose body the opener stores like any other answer
\* without raising, or no answer at all, which raises IOError
Retrievals == {"ok", "http_error", "unreachable"}

\* The result holds the exception raised ("" for none), the returned path,
\* the URL handed to urlretrieve and the file system after the call.
SaveImage(fs, ds, image_url, dir, retrieval) ==
  IF ~HasSep(image_url)
  THEN [exc |-> "ValueError", ret |-> <<>>, requested |-> <<>>, files |-> fs]
  ELSE IF retrieval = "unreachable"
            \/ ~CanWrite(ds, LocalFilepath(image_url, dir))
  THEN [exc |-> "IOError", ret |-> <<>>, requested |-> DownloadUrl(image_url),
        files |-> fs]
  ELSE [exc |-> "", ret |-> LocalFilepath(image_url, dir),
        requested |-> DownloadUrl(image_url),
        files |-> WriteFile(fs, LocalFilepath(image_url, dir),
                    [kind |-> IF retrieval = "ok" THEN "image"
                              ELSE "error_page",
                     fresh |-> TRUE,
                     data |-> DownloadUrl(image_url)])]

-----------------------------------------------------------------------------
(* random.shuffle *)

Swap(s, i, j) ==
  [k \in 1..Len(s) |-> IF k = i THEN s[j] ELSE IF k = j THEN s[i] ELSE s[k]]

\* the lists random.shuffle can leave: for i from the last position down to
\* the second, exchange position i with a position drawn from 1..i
RECURSIVE ShuffleFrom(_, _)
ShuffleFrom(s, i) ==
  IF i <= 1 THEN {s}
  ELSE UNION {ShuffleFrom(Swap(s, i, j), i - 1) : j \in 1..i}

\* every position is drawn from the whole list, with repetition
ShuffleWithRepetition(s) ==
  {[i \in 1..Len(s) |-> s[f[i]]] : f \in [1..Len(s) -> 1..Len(s)]}

Shuffle(s) == ShuffleFrom(s, Len(s))

-----------------------------------------------------------------------------
(* Inputs of a run *)

RECURSIVE SeqsUpTo(_, _)
SeqsUpTo(S, n) ==
  IF n = 0 THEN {<<>>}
  ELSE SeqsUpTo(S, n - 1)
         \cup {Append(s, x) : s \in {t \in SeqsUpTo(S, n - 1) : Len(t) = n - 1},
                              x \in S}

default_duration_minutes == 30

\* values given to -d; the default applies when the option is absent
DurationArgs == {0, default_duration_minutes}

Args == [duration_minutes : DurationArgs, randomize : BOOLEAN]

\* values of the url attribute of the media:content elements
UrlPool ==
  { <<"https:", Sep, Sep, "host", Sep, "album123", Sep, "photo.jpg">>,
    <<"https:", Sep, Sep, "host", Sep, "album123", Sep, "b.jpg">>,
    <<"https:", Sep, Sep, "host", Sep, "other", Sep, "photo.jpg">> }

\* the gphoto:name and gphoto:id elements of a feed, in document order
NameLists == { <<>>, << <<"Trip 2015">> >>, << <<"Renamed">> >> }

\* the first gphoto:id is the album's, the photos' ids follow
IdLists == { <<>>, << <<"abc123">>, <<"photo1">> >> }

Feeds == [status : {"ok"}, names : NameLists, ids : IdLists]

NoFeed(status) == [status |-> status, names |-> <<>>, ids |-> <<>>]

\* the media:content elements a well-formed feed can hold; the model draws
\* them when line 72 looks them up in the document
MediaContents == SeqsUpTo(UrlPool, MaxImages)

\* what urllib.urlopen and minidom.parse can make of album_url
Responses == Feeds \cup {NoFeed("unreachable"), NoFeed("not_xml")}

NoError == ""

NoTree == Element("", <<>>, <<>>)

NoCall == [fn |-> "", arg |-> <<>>, returned |-> FALSE, out |-> <<>>]

\* the run is over: it printed 'All done!', raised, or was killed
Ended == pc = "done" \/ error # NoError

Outcome == IF error # NoError THEN "aborted" ELSE "done"

-----------------------------------------------------------------------------
(* main *)

\* local state of a run that has parsed its command line, lines 31-49
Fresh(a) ==
  /\ pc' = "parse"
  /\ args' = a
  /\ album_xml' = NoFeed("none")
  /\ media_content_elements' = <<>>
  /\ album_name' = <<>>
  /\ album_id' = <<>>
  /\ album_dir' = <<>>
  /\ images' = <<>>
  /\ index' = 0
  /\ slideshow_xml' = NoTree
  /\ error' = NoError
  /\ attempts' = <<>>

\* an uncaught exception ends the run where it is
Raise(exc) ==
  /\ pc' = pc
  /\ error' = exc

SlideshowXmlFilepath == PathJoin(album_dir, <<"slideshow.xml">>)

BgPropertiesXmlFilepath ==
  PathJoin(BACKGROUND_PROPERTIES_DIR, album_id \o <<".xml">>)

\* lines 51-56
ParseFeed ==
  /\ pc = "parse"
  /\ error = NoError
  /\ \E r \in Responses :
       /\ album_xml' = r
       /\ IF r.status = "unreachable"
          THEN Raise("IOError") /\ UNCHANGED <<album_name, album_id, album_dir>>
          ELSE IF r.status = "not_xml"
          THEN Raise("ExpatError")
               /\ UNCHANGED <<album_name, album_id, album_dir>>
          ELSE IF r.names = <<>> \/ r.ids = <<>>
          THEN Raise("IndexError")
               /\ UNCHANGED <<album_name, album_id, album_dir>>
          ELSE /\ album_name' = r.names[1]
               /\ album_id' = r.ids[1]
               /\ album_dir' = PathJoin(BACKGROUNDS_DIR, r.ids[1])
               /\ pc' = "recreate"
               /\ UNCHANGED error
  /\ UNCHANGED <<previous, args, media_content_elements, images, index,
                 slideshow_xml, files, dirs, attempts, call>>

\* the album directory is created when absent and kept when present
RecreateAlbumDirKeep ==
  /\ pc = "recreate"
  /\ error = NoError
  /\ dirs' = dirs \cup {DirKey(album_dir)}
  /\ pc' = "properties_dir"
  /\ UNCHANGED <<previous, args, album_xml, media_content_elements, album_name,
                 album_id, album_dir, images, index, slideshow_xml, error,
                 files, attempts, call>>

\* lines 58-60
RecreateAlbumDir ==
  /\ pc = "recreate"
  /\ error = NoError
  /\ \E removed \in BOOLEAN :
       LET fs == RmTreeFiles(files, album_dir, removed)
           ds == RmTreeDirs(dirs, album_dir, removed)
           made == MakeDirs(ds, album_dir)
       IN /\ files' = fs
          /\ dirs' = made.dirs
          /\ IF made.exc # "" THEN Raise(made.exc)
             ELSE pc' = "properties_dir" /\ UNCHANGED error
  /\ UNCHANGED <<previous, args, album_xml, media_content_elements, album_name,
                 album_id, album_dir, images, index, slideshow_xml, attempts, call>>

\* lines 62-67
MakePropertiesDir ==
  /\ pc = "properties_dir"
  /\ error = NoError
  /\ dirs' = MakeDirs(dirs, BACKGROUND_PROPERTIES_DIR).dirs
  /\ pc' = "progress"
  /\ UNCHANGED <<previous, args, album_xml, media_content_elements, album_name,
                 album_id, album_dir, images, index, slideshow_xml, error, files, attempts, call>>

\* lines 69-74
StartProgress ==
  /\ pc = "progress"
  /\ error = NoError
  /\ images' = <<>>
  /\ index' = 0
  /\ \E found \in MediaContents :
       /\ media_content_elements' = found
       /\ IF PrintDownloadProgress(Len(found), 0) # ""
          THEN Raise(PrintDownloadProgress(Len(found), 0))
          ELSE pc' = "download" /\ UNCHANGED error
  /\ UNCHANGED <<previous, args, album_xml, album_name, album_id, album_dir,
                 slideshow_xml, files, dirs, attempts, call>>

\* one iteration of the loop of lines 76-79
Download ==
  /\ pc = "download"
  /\ error = NoError
  /\ index < Len(media_content_elements)
  /\ \E retrieval \in Retrievals :
       LET url == media_content_elements[index + 1]
           saved == SaveImage(files, dirs, url, album_dir, retrieval)
       IN /\ attempts' = Append(attempts, [url |-> url, exc |-> saved.exc,
                                        ret |-> saved.ret,
                                        retrieval |-> retrieval])
          /\ files' = saved.files
          /\ IF saved.exc # ""
             THEN Raise(saved.exc) /\ UNCHANGED <<images, index>>
             ELSE /\ images' = Append(images, saved.ret)
                  /\ index' = index + 1
                  /\ IF PrintDownloadProgress(Len(media_content_elements),
                                              index + 1) # ""
                     THEN Raise(PrintDownloadProgress(
                                  Len(media_content_elements), index + 1))
                     ELSE UNCHANGED <<pc, error>>
  /\ UNCHANGED <<previous, args, album_xml, media_content_elements, album_name,
                 album_id, album_dir, slideshow_xml, dirs, call>>

\* lines 80-83, after the last iteration
Randomize ==
  /\ pc = "download"
  /\ error = NoError
  /\ index = Len(media_content_elements)
  /\ images' \in (IF args.randomize THEN Shuffle(images) ELSE {images})
  /\ pc' = "slideshow"
  /\ UNCHANGED <<previous, args, album_xml, media_content_elements, album_name,
                 album_id, album_dir, index, slideshow_xml, error, files, dirs, attempts, call>>

\* lines 85-89
WriteSlideshow ==
  /\ pc = "slideshow"
  /\ error = NoError
  /\ slideshow_xml' = CreateSlideshowXml(images, args.duration_minutes)
  /\ IF CanWrite(dirs, SlideshowXmlFilepath)
     THEN /\ files' = WriteFile(files, SlideshowXmlFilepath,
                        [kind |-> "slideshow", fresh |-> TRUE,
                         data |-> slideshow_xml'])
          /\ pc' = "properties"
          /\ UNCHANGED error
     ELSE Raise("IOError") /\ UNCHANGED files
  /\ UNCHANGED <<previous, args, album_xml, media_content_elements, album_name,
                 album_id, album_dir, images, index, dirs, attempts, call>>

\* lines 91-103
WriteBackgroundProperties ==
  /\ pc = "properties"
  /\ error = NoError
  /\ IF CanWrite(dirs, BgPropertiesXmlFilepath)
     THEN /\ files' = WriteFile(files, BgPropertiesXmlFilepath,
                        [kind |-> "properties", fresh |-> TRUE,
                         data |-> CreateBackgroundPropertiesXml(
                                    album_name, SlideshowXmlFilepath)])
          /\ pc' = "done"
          /\ UNCHANGED error
     ELSE Raise("IOError") /\ UNCHANGED files
  /\ UNCHANGED <<previous, args, album_xml, media_content_elements, album_name,
                 album_id, album_dir, images, index, slideshow_xml, dirs, attempts, call>>

\* the process is terminated from outside between two steps
Terminate ==
  /\ ~Ended
  /\ error' = "Terminated"
  /\ UNCHANGED <<pc, args, album_xml, media_content_elements, album_name,
                 album_id, album_dir, images, index, slideshow_xml, previous,
                 files, dirs, attempts, call>>

\* the script is invoked again on the file system the last run left
NewRun ==
  /\ Ended
  /\ previous' = Outcome
  /\ \E a \in Args : Fresh(a)
  /\ files' = [p \in DOMAIN files |-> [files[p] EXCEPT !.fresh = FALSE]]
  /\ UNCHANGED <<dirs, call>>

\* a wallpaper registered by something else before the first run
OtherProperties ==
  PathJoin(BACKGROUND_PROPERTIES_DIR, <<"other.xml">>)

OtherContent == [kind |-> "properties", fresh |-> FALSE, data |-> <<>>]

Init ==
  /\ pc = "parse"
  /\ args \in Args
  /\ album_xml = NoFeed("none")
  /\ media_content_elements = <<>>
  /\ album_name = <<>>
  /\ album_id = <<>>
  /\ album_dir = <<>>
  /\ images = <<>>
  /\ index = 0
  /\ slideshow_xml = NoTree
  /\ error = NoError
  /\ previous = "none"
  /\ attempts = <<>>
  /\ call = NoCall
  /\ \/ dirs = {} /\ files = <<>>
     \/ /\ dirs = {DirKey(BACKGROUND_PROPERTIES_DIR)}
        /\ files = WriteFile(<<>>, OtherProperties, OtherContent)

Next ==
  \/ ParseFeed
  \/ RecreateAlbumDir
  \/ MakePropertiesDir
  \/ StartProgress
  \/ Download
  \/ Randomize
  \/ WriteSlideshow
  \/ WriteBackgroundProperties
  \/ Terminate
  \/ NewRun

Spec == Init /\ [][Next]_vars

-----------------------------------------------------------------------------
(* Single calls of the helper functions *)

\* main() at rest while a helper is called on its own
NoRun ==
  /\ pc = "call"
  /\ args = [duration_minutes |-> default_duration_minutes,
             randomize |-> FALSE]
  /\ album_xml = NoFeed("none")
  /\ media_content_elements = <<>>
  /\ album_name = <<>>
  /\ album_id = <<>>
  /\ album_dir = <<>>
  /\ images = <<>>
  /\ index = 0
  /\ slideshow_xml = NoTree
  /\ error = NoError
  /\ previous = "none"
  /\ attempts = <<>>

mainVars == <<pc, args, album_xml, media_content_elements, album_name,
              album_id, album_dir, images, index, slideshow_xml, error,
              previous, attempts>>

UrlAtoms == {Sep, "album123", "photo.jpg"}

AlbumDirOfCall == PathJoin(BACKGROUNDS_DIR, <<"abc123">>)

InitSaveImage ==
  /\ NoRun
  /\ dirs = {DirKey(AlbumDirOfCall)}
  /\ files = <<>>
  /\ \E u \in SeqsUpTo(UrlAtoms, MaxUrlLen) :
       call = [fn |-> "_save_image",
               arg |-> [image_url |-> u, album_dir |-> AlbumDirOfCall],
               returned |-> FALSE, out |-> <<>>]

\* _save_image(image_url, album_dir), lines 125-129
SaveImageCall ==
  /\ call.fn = "_save_image"
  /\ ~call.returned
  /\ \E retrieval \in Retrievals :
       LET saved == SaveImage(files, dirs, call.arg.image_url,
                              call.arg.album_dir, retrieval)
       IN /\ call' = [call EXCEPT !.returned = TRUE,
                                  !.out = [exc |-> saved.exc,
                                           ret |-> saved.ret,
                                           requested |-> saved.requested]]
          /\ files' = saved.files
  /\ UNCHANGED <<mainVars, dirs>>

NextSaveImage == SaveImageCall

SpecSaveImage == InitSaveImage /\ [][NextSaveImage]_vars

PathPool ==
  {PathJoin(AlbumDirOfCall, <<f>>) : f \in {"photo.jpg", "b.jpg", "c.jpg"}}

InitSlideshowXml ==
  /\ NoRun
  /\ dirs = {}
  /\ files = <<>>
  /\ \E imgs \in SeqsUpTo(PathPool, MaxListLen), d \in (0 - 1)..MaxDuration :
       call = [fn |-> "_create_slideshow_xml",
               arg |-> [images |-> imgs, duration_minutes |-> d],
               returned |-> FALSE, out |-> NoTree]

\* _create_slideshow_xml(images, duration_minutes), lines 143-168
CreateSlideshowXmlCall ==
  /\ call.fn = "_create_slideshow_xml"
  /\ ~call.returned
  /\ call' = [call EXCEPT !.returned = TRUE,
                          !.out = CreateSlideshowXml(call.arg.images,
                                    call.arg.duration_minutes)]
  /\ UNCHANGED <<mainVars, dirs, files>>

NextSlideshowXml == CreateSlideshowXmlCall

SpecSlideshowXml == InitSlideshowXml /\ [][NextSlideshowXml]_vars

-----------------------------------------------------------------------------
(* Reading the documents back *)

Range(s) == {s[i] : i \in 1..Len(s)}

Child(e, tag) ==
  e.children[CHOOSE i \in 1..Len(e.children) : e.children[i].tag = tag]

RECURSIVE ParseNat(_)
ParseNat(s) ==
  IF s = <<>> THEN 0
  ELSE ParseNat(SubSeq(s, 1, Len(s) - 1)) * 10
         + ((CHOOSE d \in 1..10 : DigitChars[d] = s[Len(s)]) - 1)

ParseInt(s) == IF Head(s) = "-" THEN 0 - ParseNat(Tail(s)) ELSE ParseNat(s)

\* the elements of a slideshow document that follow <starttime>
Items(xml) == Tail(xml.children)

StaticOf(xml, k) == Items(xml)[2 * k - 1]

TransitionOf(xml, k) == Items(xml)[2 * k]

Count(s, x) == Cardinality({i \in 1..Len(s) : s[i] = x})

SameMultiset(s, t) ==
  /\ Len(s) = Len(t)
  /\ \A x \in Range(s) \cup Range(t) : Count(s, x) = Count(t, x)

-----------------------------------------------------------------------------
(* Properties of _create_slideshow_xml, under SpecSlideshowXml *)

Built == call.fn = "_create_slideshow_xml" /\ call.returned

\* C1: for N >= 1 images and duration_minutes D with D*60 > 5 the document
\* holds exactly N (static, transition) pairs after <starttime>; in every
\* pair the static and the transition duration add up to D*60 seconds and
\* the transition lasts 5 seconds; with D = 30 the static duration is 1795.
C1_PairsAddUpToPeriod ==
  LET imgs == call.arg.images
      d == call.arg.duration_minutes
      xml == call.out
  IN (Built /\ Len(imgs) >= 1 /\ d * 60 > 5) =>
       /\ Len(Items(xml)) = 2 * Len(imgs)
       /\ \A k \in 1..Len(imgs) :
            LET static == ParseInt(Child(StaticOf(xml, k), "duration").text)
                fade == ParseInt(Child(TransitionOf(xml, k), "duration").text)
            IN /\ StaticOf(xml, k).tag = "static"
               /\ TransitionOf(xml, k).tag = "transition"
               /\ fade = 5
               /\ static + fade = d * 60
               /\ d = 30 => static = 1795

C1_Witness ==
  /\ Built
  /\ Len(call.arg.images) = 3
  /\ call.arg.duration_minutes = 30
  /\ Child(StaticOf(call.out, 3), "duration").text = <<"1", "7", "9", "5">>
  /\ Child(TransitionOf(call.out, 3), "duration").text = <<"5">>

\* C2: for N >= 1 images, pair i shows image i, fades from image i and fades
\* to the image at position (i+1) mod N: the pairs are in list order, the last
\* image goes back to the first, a single image goes to itself.
C2_SingleCycle ==
  LET imgs == call.arg.images
      xml == call.out
      n == Len(call.arg.images)
  IN (Built /\ n >= 1) =>
       /\ Len(Items(xml)) = 2 * n
       /\ \A i \in 1..n :
            /\ Child(StaticOf(xml, i), "file").text = imgs[i]
            /\ Child(TransitionOf(xml, i), "from").text = imgs[i]
            /\ Child(TransitionOf(xml, i), "to").text = imgs[(i % n) + 1]

C2_Witness ==
  /\ Built
  /\ Len(call.arg.images) = 3
  /\ Cardinality(Range(call.arg.images)) = 3
  /\ Child(TransitionOf(call.out, 3), "to").text = call.arg.images[1]
  /\ Child(TransitionOf(call.out, 1), "to").text = call.arg.images[2]

-----------------------------------------------------------------------------
(* Properties of _save_image, under SpecSaveImage *)

\* C7: a source URL with at least one '/' is split at its last '/' into
\* (baseUrl, filename); urlretrieve is asked for baseUrl + "/s4096-d/" +
\* filename, and the path returned is album_dir joined with that filename,
\* where the retrieved bytes are stored.
C7_UrlRewrite ==
  LET u == call.arg.image_url
      dir == call.arg.album_dir
  IN (call.fn = "_save_image" /\ call.returned /\ HasSep(u)) =>
       \E i \in 1..Len(u) :
         LET base == SubSeq(u, 1, i - 1)
             name == SubSeq(u, i + 1, Len(u))
         IN /\ u[i] = Sep
            /\ ~HasSep(name)
            /\ call.out.exc \in {"", "IOError"}
            /\ call.out.requested = base \o <<Sep, "s4096-d", Sep>> \o name
            /\ call.out.exc = "" =>
                 /\ call.out.ret = dir \o <<Sep>> \o name
                 /\ call.out.ret \in DOMAIN files
                 /\ files[call.out.ret].data = call.out.requested

C7_Witness ==
  /\ call.fn = "_save_image"
  /\ call.returned
  /\ call.arg.image_url = <<"album123", Sep, "album123", Sep, "photo.jpg">>
  /\ call.out.exc = ""
  /\ call.out.requested =
       <<"album123", Sep, "album123", Sep, "s4096-d", Sep, "photo.jpg">>
  /\ call.out.ret = AlbumDirOfCall \o <<Sep, "photo.jpg">>

-----------------------------------------------------------------------------
(* Properties of main, under Spec *)

\* the paths _save_image returned in this run, in the order of the calls
Downloaded == [i \in 1..Len(attempts) |-> attempts[i].ret]

\* the images of the schedule, in the order of its pairs
Scheduled(xml) ==
  [k \in 1..(Len(Items(xml)) \div 2) |-> Child(StaticOf(xml, k), "file").text]

\* the slideshow document of this run has been built and written
SlideshowWritten == pc \in {"properties", "done"}

\* a slideshow or registration file written by the current run
WroteDescriptor ==
  \E p \in DOMAIN files :
    files[p].fresh /\ files[p].kind \in {"slideshow", "properties"}

SlideshowPathOf(id) == BACKGROUNDS_DIR \o id \o <<Sep, "slideshow.xml">>

RegistrationPathOf(id) == BACKGROUND_PROPERTIES_DIR \o id \o <<".xml">>

\* C3: with duration_minutes D where D*60 <= 5 the run ends in a
\* configuration error when it builds the schedule: no document with a
\* static duration of zero or less is built and no slideshow file is
\* written.
C3_ConfigError ==
  (args.duration_minutes * 60 <= 5) =>
    /\ slideshow_xml = NoTree
    /\ ~SlideshowWritten
    /\ \A p \in DOMAIN files :
         (files[p].fresh /\ files[p].kind = "slideshow") =>
           \A k \in 1..(Len(Items(files[p].data)) \div 2) :
             ParseInt(Child(StaticOf(files[p].data, k), "duration").text) > 0
    /\ (pc = "slideshow" /\ error \notin {NoError, "Terminated"}) =>
         error = "ConfigError"

\* the download of attempt i did not deliver the image
FailedDownload(i) == attempts[i].exc # "" \/ attempts[i].retrieval # "ok"

\* C4: the downloads are attempted in feed order; slideshow.xml and the
\* registration file are written only after all N downloads succeeded; when
\* the download of image k fails the failure ends the run there, images
\* k+1..N are never attempted and the run writes neither file.
C4_AllDownloadsBeforeDescriptors ==
  /\ Len(attempts) <= Len(media_content_elements)
  /\ \A i \in 1..Len(attempts) : attempts[i].url = media_content_elements[i]
  /\ WroteDescriptor =>
       /\ Len(attempts) = Len(media_content_elements)
       /\ \A i \in 1..Len(attempts) : ~FailedDownload(i)
  /\ \A i \in 1..Len(attempts) :
       FailedDownload(i) =>
         /\ i = Len(attempts)
         /\ pc = "download"
         /\ error \notin {NoError, "Terminated"}
         /\ ~WroteDescriptor

\* C5: a run on a well-formed feed with album name and id and no image
\* entry ends either in MalformedFeedError or as a completed run with zero
\* schedule pairs, and in no other failure.
C5_EmptyFeedOutcome ==
  (/\ album_xml.status = "ok"
   /\ album_xml.names # <<>>
   /\ album_xml.ids # <<>>
   /\ media_content_elements = <<>>
   /\ \/ pc = "progress" /\ error \notin {NoError, "Terminated"}
      \/ pc \in {"download", "slideshow", "properties"}
           /\ error \notin {NoError, "Terminated"}
      \/ pc = "done")
  =>
    \/ error = "MalformedFeedError"
    \/ pc = "done" /\ error = NoError /\ Items(slideshow_xml) = <<>>

\* C6: with randomization the images of the schedule are a permutation of
\* the downloaded local paths (same multiset, same length); without it they
\* are the downloaded paths in feed order.
C6_ScheduleOrder ==
  SlideshowWritten =>
    /\ Len(Downloaded) = Len(media_content_elements)
    /\ IF args.randomize
       THEN SameMultiset(Scheduled(slideshow_xml), Downloaded)
       ELSE Scheduled(slideshow_xml) = Downloaded

C6_Witness ==
  /\ SlideshowWritten
  /\ args.randomize
  /\ Len(Downloaded) = 2
  /\ Cardinality(Range(Downloaded)) = 2
  /\ Scheduled(slideshow_xml) # Downloaded

\* C8: after a successful run for the album with name M and id A the
\* registration file is <background-properties root>/A.xml; its name is M,
\* its filename is <backgrounds root>/A/slideshow.xml, where this run wrote
\* the slideshow, and its options, pcolor, scolor and shade_type are zoom,
\* #111111, #111111 and solid.
C8_Registration ==
  (pc = "done") =>
    LET reg == RegistrationPathOf(album_xml.ids[1])
        show == SlideshowPathOf(album_xml.ids[1])
    IN /\ reg \in DOMAIN files
       /\ files[reg].fresh
       /\ files[reg].kind = "properties"
       /\ show \in DOMAIN files
       /\ files[show].fresh
       /\ files[show].kind = "slideshow"
       /\ LET wallpaper == files[reg].data.children[1]
          IN /\ Child(wallpaper, "name").text = album_xml.names[1]
             /\ Child(wallpaper, "filename").text = show
             /\ Child(wallpaper, "options").text = <<"zoom">>
             /\ Child(wallpaper, "pcolor").text = <<"#111111">>
             /\ Child(wallpaper, "scolor").text = <<"#111111">>
             /\ Child(wallpaper, "shade_type").text = <<"solid">>

C8_Witness ==
  /\ pc = "done"
  /\ album_xml.names[1] = <<"Trip 2015">>
  /\ album_xml.ids[1] = <<"abc123">>
  /\ Len(media_content_elements) = 2
  /\ RegistrationPathOf(<<"abc123">>) \in DOMAIN files
  /\ files[RegistrationPathOf(<<"abc123">>)].fresh

\* the album directory holds only files written by the current run once a
\* download has been attempted, and after a successful run exactly the
\* downloaded files and slideshow.xml
C9_AlbumDirIsFresh ==
  /\ attempts # <<>> =>
       \A p \in FilesIn(files, album_dir) : files[p].fresh
  /\ pc = "done" =>
       /\ FilesIn(files, album_dir)
            = Range(Downloaded) \cup {SlideshowPathOf(album_id)}
       /\ \A p \in FilesIn(files, album_dir) : files[p].fresh

\* the step of lines 62-67 leaves the background-properties directory in
\* place, raises nothing and changes no file
C9_PropertiesDirStep ==
  (pc = "properties_dir" /\ pc' = "progress") =>
    /\ DirKey(BACKGROUND_PROPERTIES_DIR) \in dirs'
    /\ error' = NoError
    /\ files' = files
    /\ dirs \subseteq dirs'

\* C9: in every run the album directory is deleted and recreated before any
\* download, so after a successful run it holds exactly the files downloaded
\* in that run and slideshow.xml, nothing of earlier runs; creating the
\* background-properties directory succeeds whether or not it exists and
\* leaves its contents unchanged.
C9_FreshAlbumDir == []C9_AlbumDirIsFresh /\ [][C9_PropertiesDirStep]_vars

C9_Witness ==
  /\ pc = "done"
  /\ previous = "done"
  /\ OtherProperties \in DOMAIN files
  /\ Len(media_content_elements) = 1
  /\ Cardinality(FilesIn(files, album_dir)) = 2

\* C10: when a run is killed or aborted by a failed download in the
\* download phase (after the album directory was wiped), slideshow.xml is
\* absent from the album directory and no registration file of the album
\* names a slideshow file that does not exist, whatever the runs before it
\* did.
C10_NoDanglingDescriptor ==
  (pc \in {"progress", "download"} /\ error \in {"Terminated", "IOError"}) =>
    /\ SlideshowPathOf(album_id) \notin DOMAIN files
    /\ RegistrationPathOf(album_id) \in DOMAIN files =>
         Child(files[RegistrationPathOf(album_id)].data.children[1],
               "filename").text \in DOMAIN files

====
